---- MODULE Spec2Model ----
(***************************************************************************)
(* Capture-to-detection pipeline of the OCR card scanner: the scan         *)
(* orchestrator (useCardScanner), the capture session manager (useCamera)  *)
(* and the recognition engine manager (useOCR, in its two source forms).   *)
(*                                                                         *)
(* Granularity.  Every action is one JavaScript task: an operator call, a  *)
(* timer firing, a DOM event or the continuation of an await.  The React   *)
(* state updates the task makes are committed with it, together with the   *)
(* effect pass they trigger (effect cleanup, then the effect body), so a   *)
(* variable holds the committed React state.  Values captured by a         *)
(* closure that outlives its task (the worker seen by an in-flight tick,   *)
(* the isMounted flag of an initialization attempt) are stored with the    *)
(* pending continuation.                                                   *)
(***************************************************************************)
EXTENDS Integers, Sequences, FiniteSets, TLC

\* ------------------------------------------------------------------ bounds
MaxClock == 2          \* Date.now() readings (accepted ticks) the model follows
MaxInFlight == 2       \* pending tick continuations the model can hold
MaxWorkers == 2        \* OCR workers the backend constructor may return
MaxStreams == 2        \* media streams the device may hand out
MaxRetryCount == 4     \* cap on ocrRetryCount (retryOCRInit can raise it for ever)
MaxRequests == 2       \* getUserMedia requests outstanding at once
MaxTierRetry == 30     \* retry counts 0..MaxTierRetry put to the tier choice
ScanStreams == 2       \* streams handed out in SpecScan
FrameW == 4            \* native frame width the device delivers (scaled)
FrameH == 3            \* native frame height the device delivers (scaled)
MaxPasses == 2         \* preprocessImage calls made on one canvas
ExtractMaxW == 3       \* frame widths 0..ExtractMaxW put to the region extraction
ExtractMaxH == 30      \* frame heights 0..ExtractMaxH put to the region extraction

\* ------------------------------------------------- program constants
ConfThreshold == 600   \* confidence > 60, in tenths of a percent
HighConfidence == 800  \* overlay colour threshold, confidence > 80
AutoRetryLimit == 3    \* ocrRetryCount < 3 schedules another attempt
HaveCurrentData == 2   \* HTMLMediaElement.HAVE_CURRENT_DATA, readyState >= 2

Min(a, b) == IF a < b THEN a ELSE b
Max(a, b) == IF a > b THEN a ELSE b

\* ------------------------------------------------------------------- text
\* A text is a sequence of one-character strings.
Digits == {"0", "1", "2", "3", "4", "5", "6", "7", "8", "9"}
\* The characters the regular expression class \s accepts (those the model uses).
Whitespace == {" ", "\t", "\n"}

IsDigit(c) == c \in Digits
IsSpace(c) == c \in Whitespace

\* The pattern /(\d{4}\s?\d{4}\s?\d{4}\s?\d{4})/ as a sequence of atoms:
\* "d" one digit, "s" an optional whitespace character (greedy).
CardPattern ==
  <<"d", "d", "d", "d", "s", "d", "d", "d", "d", "s",
    "d", "d", "d", "d", "s", "d", "d", "d", "d">>

\* Backtracking match of atoms p..Len(CardPattern) at position i of text:
\* the index one past the match, or 0 when there is none.
RECURSIVE MatchFrom(_, _, _)
MatchFrom(text, i, p) ==
  IF p > Len(CardPattern) THEN i
  ELSE IF CardPattern[p] = "d"
    THEN IF i <= Len(text) /\ IsDigit(text[i])
           THEN MatchFrom(text, i + 1, p + 1)
           ELSE 0
    ELSE LET taken == IF i <= Len(text) /\ IsSpace(text[i])
                        THEN MatchFrom(text, i + 1, p + 1)
                        ELSE 0
         IN IF taken # 0 THEN taken ELSE MatchFrom(text, i, p + 1)

\* text.match(pattern): the leftmost match, as <<first, onePastLast>>, or <<0, 0>>.
RECURSIVE MatchSearch(_, _)
MatchSearch(text, i) ==
  IF i > Len(text) THEN <<0, 0>>
  ELSE LET e == MatchFrom(text, i, 1)
       IN IF e # 0 THEN <<i, e>> ELSE MatchSearch(text, i + 1)

TextMatch(text) == MatchSearch(text, 1)

\* numberMatch[1].replace(/\s/g, "")
StripSpaces(s) == SelectSeq(s, LAMBDA c : ~IsSpace(c))

NoNumber == <<>>

\* A validator whose confidence test is not strict.
ValidateCardAtThreshold(text, confidence) ==
  LET m == TextMatch(text)
  IN IF m[1] # 0 /\ confidence >= ConfThreshold
       THEN LET cardNumber == StripSpaces(SubSeq(text, m[1], m[2] - 1))
            IN IF Len(cardNumber) = 16 THEN cardNumber ELSE NoNumber
       ELSE NoNumber

\* Lines 141-146 of processFrame: the card number a recognition result is
\* accepted with, or NoNumber when it is rejected.
ValidateCard(text, confidence) ==
  LET m == TextMatch(text)
  IN IF m[1] # 0 /\ confidence > ConfThreshold
       THEN LET cardNumber == StripSpaces(SubSeq(text, m[1], m[2] - 1))
            IN IF Len(cardNumber) = 16 THEN cardNumber ELSE NoNumber
       ELSE NoNumber

Accepts(text, confidence) == ValidateCard(text, confidence) # NoNumber

\* --------------------------------------------------------------- utilities
\* An extractCardNumberRegion whose band starts at 0.8 of the frame height, so
\* that it passes the last row.
ExtractCardNumberRegionLow(w, h, ctxOk) ==
  IF w = 0 \/ h = 0 \/ ~ctxOk
    THEN [ok |-> FALSE, width |-> 0, height |-> 0, y |-> 0]
    ELSE LET regionHeight == Max(1, (h * 3) \div 10)
             regionY == (h * 8) \div 10
             height == IF regionY + regionHeight > h
                         THEN Max(1, h - regionY)
                         ELSE regionHeight
         IN [ok |-> TRUE, width |-> w, height |-> height, y |-> regionY]

\* An extractCardNumberRegion that takes its band from the middle of the frame.
ExtractCardNumberRegionMiddle(w, h, ctxOk) ==
  IF w = 0 \/ h = 0 \/ ~ctxOk
    THEN [ok |-> FALSE, width |-> 0, height |-> 0, y |-> 0]
    ELSE [ok |-> TRUE, width |-> w, height |-> Max(1, (h * 3) \div 10), y |-> h \div 2]

\* extractCardNumberRegion: the band cropped from a w x h canvas, or an error.
\* ctxOk is whether the region canvas yields a 2d drawing context.
ExtractCardNumberRegion(w, h, ctxOk) ==
  IF w = 0 \/ h = 0 \/ ~ctxOk
    THEN [ok |-> FALSE, width |-> 0, height |-> 0, y |-> 0]
    ELSE LET regionHeight == Max(1, (h * 3) \div 10)
             regionY == (h * 4) \div 10
             height == IF regionY + regionHeight > h
                         THEN Max(1, h - regionY)
                         ELSE regionHeight
         IN [ok |-> TRUE, width |-> w, height |-> height, y |-> regionY]

\* 1000 times the luma sum 0.299 R + 0.587 G + 0.114 B.
Luma(p) == 299 * p.r + 587 * p.g + 114 * p.b

\* The channel triples, among those of ChannelValues, whose luma sum is k + 1/2
\* exactly while the sum of the three double-precision products is a double
\* below it: 0.587 * 204 + 0.114 * 68 evaluates to 127.49999999999999.
SumFallsShort == {<<0, 204, 68>>}

\* Math.round of the double-precision sum: the nearest integer, a half going
\* up, taken of the double the sum evaluates to.
Gray(p) ==
  IF <<p.r, p.g, p.b>> \in SumFallsShort
    THEN Luma(p) \div 1000
    ELSE (Luma(p) + 500) \div 1000

\* A contrast step that moves every value up.
EnhanceUp(gray) == Min(255, gray + 50)

\* gray < 128 ? Math.max(0, gray - 50) : Math.min(255, gray + 50)
Enhance(gray) == IF gray < 128 THEN Max(0, gray - 50) ELSE Min(255, gray + 50)

\* The store into the Uint8ClampedArray of the image data.
Uint8Clamp(x) == Max(0, Min(255, x))

\* preprocessImage: the canvas after putImageData.
PreprocessImage(image) ==
  [image EXCEPT !.data =
     [i \in 1..Len(image.data) |->
        LET enhanced == Uint8Clamp(Enhance(Gray(image.data[i])))
        IN [r |-> enhanced, g |-> enhanced, b |-> enhanced, a |-> image.data[i].a]]]

\* A getMaskedNumber that masks nothing.
GetMaskedNumberUnmasked(number) == number

\* getMaskedNumber
GetMaskedNumber(number) ==
  IF Len(number) # 16
    THEN number
    ELSE <<"*", "*", "*", "*", " ", "*", "*", "*", "*", " ", "*", "*", "*", "*", " ">>
           \o SubSeq(number, Len(number) - 3, Len(number))

\* number.replace(/(.{4})/g, "$1 "): a space after every full group of four.
RECURSIVE SpaceGroups(_)
SpaceGroups(s) ==
  IF Len(s) < 4 THEN s
  ELSE SubSeq(s, 1, 4) \o <<" ">> \o SpaceGroups(SubSeq(s, 5, Len(s)))

\* String.prototype.trim
RECURSIVE Trim(_)
Trim(s) ==
  IF s = <<>> THEN s
  ELSE IF IsSpace(s[1]) THEN Trim(Tail(s))
  ELSE IF IsSpace(s[Len(s)]) THEN Trim(SubSeq(s, 1, Len(s) - 1))
  ELSE s

\* The text of the number line of the result panel.
NumberDisplay(number, showFullNumber) ==
  IF showFullNumber THEN Trim(SpaceGroups(number)) ELSE GetMaskedNumber(number)

\* drawDetectionOverlay: what the overlay canvas shows after the call.
DrawDetectionOverlay(w, h, confidence) ==
  [width |-> w, height |-> h,
   colour |-> IF confidence > HighConfidence THEN "green" ELSE "amber",
   label |-> confidence]

NoOverlay == [width |-> 0, height |-> 0, colour |-> "none", label |-> 0]

\* ------------------------------------------------------------------ state
VARIABLES
  mounted,            \* the component holding the hooks is mounted
  \* useCardScanner
  isScanning, isProcessing, detectedCard,
  intervalOn,         \* the setInterval of the scanning effect is installed
  inflight,           \* ticks past setIsProcessing(true) with a continuation pending
  overlay,            \* content of the overlay canvas
  now,                \* Date.now() readings taken so far (each reading is later)
  \* useCamera and the video element
  stream, isVideoReady, cameraError, cameraStatus,
  cameraFailure,      \* the error most recently handed to handleCameraError
  requests,           \* getUserMedia calls not yet settled
  nStreams,           \* streams handed out so far
  liveStreams,        \* streams whose tracks have not been stopped
  video,              \* the video element
  \* useOCR
  variant,            \* which of the two useOCR sources is built
  tesseractWorker, isInitializingOCR, ocrRetryCount, ocrError,
  attempts,           \* initWorker calls suspended at an await
  timers,             \* auto-retry timeouts not yet fired
  nWorkers,           \* workers the backend constructor has returned
  terminated,         \* workers on which terminate() was called
  ocrLog,             \* failures of attempts in force and retryOCRInit calls so far
  \* history
  lastAccepted,       \* the detection of the most recent accepted tick
  lastEvent,          \* the scan orchestrator task that ran last
  validation,         \* a recognition result put to the validator, and its verdict
  selection,          \* a retry count put to the tier choice, and the tier chosen
  recognition,        \* a call of recognizeText: the worker it saw and its outcome
  display,            \* the detection result panel: its number, its toggle, its text
  canvas,             \* a region canvas put to preprocessImage: its pixels before and after
  extraction          \* a frame canvas put to extractCardNumberRegion, and the outcome

scanVars == <<isScanning, isProcessing, detectedCard, inflight, overlay, now>>
cameraVars == <<stream, isVideoReady, cameraError, cameraStatus, cameraFailure, requests,
                nStreams, liveStreams, video>>
ocrVars == <<variant, tesseractWorker, isInitializingOCR, ocrRetryCount, ocrError,
             attempts, timers, nWorkers, terminated, ocrLog>>
probeVars == <<validation, selection, recognition, display, canvas, extraction>>
vars == <<mounted, intervalOn, scanVars, cameraVars, ocrVars, lastAccepted, lastEvent,
          probeVars>>

\* ------------------------------------------------------------------ useOCR
NoError == [kind |-> "none", attempts |-> 0, msg |-> ""]

\* The history of initialization: the retry counts at which attempts in force
\* failed, the last failure's message, the retryOCRInit calls, whether the
\* last of them found an error surfaced, and the backoff timeouts that have
\* fired in force since it.
NoLog == [failedAt |-> {}, lastMsg |-> "", manual |-> 0, afterTerminal |-> FALSE,
          backoffs |-> 0]

\* The two sources of the hook: the tiered one with accessibility probes and
\* auto-retry, and the basic one with a local and a bundled configuration.
Variants == {"tiered", "basic"}

\* workerConfigs of the tiered hook, in order; remote is
\* workerPath.startsWith("http").
WorkerConfigs ==
  <<[name |-> "Local WASM files", remote |-> FALSE, paths |-> TRUE],
    [name |-> "jsDelivr CDN", remote |-> TRUE, paths |-> TRUE],
    [name |-> "unpkg CDN", remote |-> TRUE, paths |-> TRUE],
    [name |-> "Default bundled", remote |-> FALSE, paths |-> FALSE]>>

\* Index (from 0) of the configuration an attempt made at retryCount uses.
TierIndex(retryCount) == Min(retryCount, Len(WorkerConfigs) - 1)

\* The configuration an attempt uses, in either hook.
CurrentConfig(v, retryCount) ==
  IF v = "tiered"
    THEN WorkerConfigs[TierIndex(retryCount) + 1]
    ELSE IF retryCount = 0
           THEN [name |-> "Local WASM files", remote |-> FALSE, paths |-> TRUE]
           ELSE [name |-> "Default bundled", remote |-> FALSE, paths |-> FALSE]

\* An initWorker that goes to the backend constructor without any probe.
NewAttemptUnprobed(v, retryCount) ==
  [retry |-> retryCount, isMounted |-> TRUE, workerAccessible |-> TRUE,
   tier |-> CurrentConfig(v, retryCount).name, stage |-> "create"]

\* initWorker up to its first await: the suspended attempt it leaves.
NewAttempt(v, retryCount) ==
  [retry |-> retryCount, isMounted |-> TRUE, workerAccessible |-> TRUE,
   tier |-> CurrentConfig(v, retryCount).name,
   stage |-> IF v = "tiered" /\ CurrentConfig(v, retryCount).remote
               THEN "probeWorker" ELSE "create"]

\* The effect cleanup: isMounted = false in the closure of the superseded run.
Unmounted(S) == {[x EXCEPT !.isMounted = FALSE] : x \in S}

\* Commit of the hook's state after a task, with the effect pass when a
\* dependency (ocrRetryCount, tesseractWorker) changed: the cleanup of the
\* previous run, which terminates the worker that run saw, then the new run,
\* which calls initWorker when no worker is installed.
OcrCommit(retry2, worker2, error2, init2, attempts2, timers2, terminated2) ==
  /\ ocrRetryCount' = retry2
  /\ tesseractWorker' = worker2
  /\ IF retry2 = ocrRetryCount /\ worker2 = tesseractWorker
       THEN /\ ocrError' = error2
            /\ isInitializingOCR' = init2
            /\ attempts' = attempts2
            /\ timers' = timers2
            /\ terminated' = terminated2
       ELSE /\ timers' = Unmounted(timers2)
            /\ terminated' = IF tesseractWorker # 0
                               THEN terminated2 \cup {tesseractWorker}
                               ELSE terminated2
            /\ IF worker2 = 0
                 THEN /\ ocrError' = NoError
                      /\ isInitializingOCR' = TRUE
                      /\ attempts' = Unmounted(attempts2) \cup {NewAttempt(variant, retry2)}
                 ELSE /\ ocrError' = error2
                      /\ isInitializingOCR' = init2
                      /\ attempts' = Unmounted(attempts2)

\* A catch block that gives up one attempt early.
AutoRetriesTwice(v, retryCount) == v = "tiered" /\ retryCount < 2

\* A catch block that retries once more before it gives up.
AutoRetriesFourTimes(v, retryCount) == v = "tiered" /\ retryCount < 4

\* The test of the catch block for scheduling another attempt: line 156 of the
\* tiered hook; the basic hook has no such branch.
AutoRetries(v, retryCount) == v = "tiered" /\ retryCount < AutoRetryLimit

\* The catch block of initWorker for attempt a failing with message msg.
InitFailed(a, msg) ==
  /\ ocrLog' = IF a.isMounted
                 THEN [ocrLog EXCEPT !.failedAt = @ \cup {a.retry}, !.lastMsg = msg]
                 ELSE ocrLog
  /\ IF ~a.isMounted
       THEN OcrCommit(ocrRetryCount, tesseractWorker, ocrError, isInitializingOCR,
                      attempts \ {a}, timers, terminated)
       ELSE IF AutoRetries(variant, a.retry)
         THEN OcrCommit(ocrRetryCount, tesseractWorker, ocrError, isInitializingOCR,
                        attempts \ {a},
                        timers \cup {[retry |-> a.retry, isMounted |-> TRUE]},
                        terminated)
         ELSE OcrCommit(ocrRetryCount, tesseractWorker,
                        [kind |-> IF variant = "tiered" THEN "after attempts" ELSE "plain",
                         attempts |-> IF variant = "tiered" THEN a.retry + 1 ELSE 0,
                         msg |-> msg],
                        FALSE, attempts \ {a}, timers, terminated)

\* A scanning effect that looks at isScanning alone.
ScanIntervalIgnoringStream(isMounted, scanning, strm) == isMounted /\ scanning

\* The scanning-interval effect of useCardScanner: after the effect pass the
\* timer is installed exactly when the component is mounted, scanning is on
\* and a stream is held (every other case ran the cleanup's clearInterval).
ScanInterval(isMounted, scanning, strm) == isMounted /\ scanning /\ strm # 0

\* What every task ends with: the scanning effect re-evaluated on the
\* committed state.  Tasks of the scan orchestrator also record themselves.
Effects == intervalOn' = ScanInterval(mounted', isScanning', stream')

Done(event) == Effects /\ lastEvent' = event

EnvDone == Effects /\ UNCHANGED lastEvent

\* The accessibility probe of the worker script settles (checkUrlAccessibility
\* never throws: it returns false on a network error).
ProbeWorkerDone ==
  \E a \in attempts, ok \in BOOLEAN :
    /\ a.stage = "probeWorker"
    /\ attempts' = (attempts \ {a}) \cup
                     {[a EXCEPT !.stage = "probeCore", !.workerAccessible = ok]}
    /\ UNCHANGED <<probeVars, mounted, scanVars, cameraVars, lastAccepted, variant, tesseractWorker,
                   isInitializingOCR, ocrRetryCount, ocrError, timers, nWorkers, terminated,
                   ocrLog>>
    /\ EnvDone

\* The probe of the core binary settles: both accessible goes on to the
\* backend constructor, anything else throws into the catch block.
ProbeCoreDone ==
  \E a \in attempts, ok \in BOOLEAN :
    /\ a.stage = "probeCore"
    /\ IF a.workerAccessible /\ ok
         THEN /\ attempts' = (attempts \ {a}) \cup {[a EXCEPT !.stage = "create"]}
              /\ UNCHANGED <<tesseractWorker, isInitializingOCR, ocrRetryCount, ocrError,
                             timers, terminated, ocrLog>>
         ELSE InitFailed(a, "CDN files not accessible")
    /\ UNCHANGED <<probeVars, mounted, scanVars, cameraVars, lastAccepted, variant, nWorkers>>
    /\ EnvDone

\* An attempt that installs whatever it constructed.
AdoptsAlways(a) == TRUE

\* The isMounted test after createWorker resolved (line 139 of the tiered
\* hook, line 59 of the basic one).
Adopts(a) == a.isMounted

\* Tesseract.createWorker settles.  A worker is installed only by the attempt
\* of the current effect run; a superseded attempt terminates what it got.
CreateWorkerDone ==
  \E a \in attempts, ok \in BOOLEAN :
    /\ a.stage = "create"
    /\ ok => nWorkers < MaxWorkers
    /\ IF ok
         THEN /\ nWorkers' = nWorkers + 1
              /\ UNCHANGED ocrLog
              /\ IF Adopts(a)
                   THEN OcrCommit(ocrRetryCount, nWorkers + 1, ocrError, FALSE,
                                  attempts \ {a}, timers, terminated)
                   ELSE OcrCommit(ocrRetryCount, tesseractWorker, ocrError,
                                  isInitializingOCR, attempts \ {a}, timers,
                                  terminated \cup {nWorkers + 1})
         ELSE /\ nWorkers' = nWorkers
              /\ InitFailed(a, "createWorker failed")
    /\ UNCHANGED <<probeVars, mounted, scanVars, cameraVars, lastAccepted, variant>>
    /\ EnvDone

\* The 2000 ms auto-retry timeout fires.
BackoffFire ==
  \E t \in timers :
    /\ IF t.isMounted
         THEN OcrCommit(ocrRetryCount + 1, tesseractWorker, ocrError, isInitializingOCR,
                        attempts, timers \ {t}, terminated)
         ELSE OcrCommit(ocrRetryCount, tesseractWorker, ocrError, isInitializingOCR,
                        attempts, timers \ {t}, terminated)
    /\ ocrLog' = IF t.isMounted THEN [ocrLog EXCEPT !.backoffs = @ + 1] ELSE ocrLog
    /\ UNCHANGED <<probeVars, mounted, scanVars, cameraVars, lastAccepted, variant, nWorkers>>
    /\ EnvDone

NoSelection == [retryCount |-> 0, done |-> FALSE, tier |-> ""]

\* Lines 84-85 of the tiered initWorker, lines 35-56 of the basic one, on the
\* retry count held in selection: the configuration the attempt would use.
SelectTier ==
  /\ ~selection.done
  /\ selection' = [selection EXCEPT
                     !.done = TRUE,
                     !.tier = CurrentConfig(variant, selection.retryCount).name]
  /\ UNCHANGED <<mounted, intervalOn, scanVars, cameraVars, ocrVars, lastAccepted,
                 lastEvent, validation, recognition, display, canvas, extraction>>

\* What the backend may report for a blob.
RecognizedTexts == {<<>>, <<"4", "1">>, <<"x">>}

RecognizedConfidences == {0, 87}

NoData == [text |-> <<>>, confidence |-> 0]

\* A recognizeText call not made yet: the handle it sees, whether it called
\* worker.recognize, what the backend reported, and how the call ended.
NoRecognition == [stage |-> "idle", worker |-> 0, called |-> FALSE, reported |-> NoData,
                  outcome |-> "none", text |-> <<>>, confidence |-> 0]

\* A recognizeText that goes to the backend whatever handle it holds.
HasWorkerAlways(worker) == TRUE

\* The guard of recognizeText: if (!tesseractWorker) throw.
HasWorker(worker) == worker # 0

\* The value recognizeText returns from the backend's data.
RecognizeResult(data) == [text |-> data.text, confidence |-> data.confidence]

\* recognizeText(blob) up to its await: without a handle it throws at once,
\* with one it calls worker.recognize and suspends.
CallRecognizeText ==
  /\ recognition.stage # "pending"
  /\ recognition' =
       IF HasWorker(tesseractWorker)
         THEN [NoRecognition EXCEPT !.stage = "pending", !.worker = tesseractWorker,
                                    !.called = TRUE]
         ELSE [NoRecognition EXCEPT !.stage = "done", !.worker = tesseractWorker,
                                    !.outcome = "OCR worker not initialized"]
  /\ UNCHANGED <<mounted, intervalOn, scanVars, cameraVars, ocrVars, lastAccepted,
                 lastEvent, validation, selection, display, canvas, extraction>>

\* worker.recognize settles: recognizeText returns the text and confidence of
\* the data it resolved with, or passes on its rejection.
RecognizeTextSettled ==
  /\ recognition.stage = "pending"
  /\ \/ \E text \in RecognizedTexts, confidence \in RecognizedConfidences :
          LET data == [text |-> text, confidence |-> confidence]
          IN  recognition' = [recognition EXCEPT
                                !.stage = "done",
                                !.reported = data,
                                !.outcome = "returned",
                                !.text = RecognizeResult(data).text,
                                !.confidence = RecognizeResult(data).confidence]
     \/ recognition' = [recognition EXCEPT !.stage = "done", !.outcome = "rejected"]
  /\ UNCHANGED <<mounted, intervalOn, scanVars, cameraVars, ocrVars, lastAccepted,
                 lastEvent, validation, selection, display, canvas, extraction>>

NoImage == [width |-> 0, height |-> 0, data |-> <<>>]

\* A region canvas before it is handed over.
NoCanvas == [previous |-> NoImage, image |-> NoImage, passes |-> 0]

\* preprocessImage(canvas, context) on the canvas as it is.
Preprocess ==
  /\ canvas.image # NoImage
  /\ canvas.passes < MaxPasses
  /\ canvas' = [previous |-> canvas.image,
                image |-> PreprocessImage(canvas.image),
                passes |-> canvas.passes + 1]
  /\ UNCHANGED <<mounted, intervalOn, scanVars, cameraVars, ocrVars, lastAccepted,
                 lastEvent, validation, selection, recognition, display, extraction>>

NoExtraction == [width |-> 0, height |-> 0, ctxOk |-> TRUE, done |-> FALSE,
                 region |-> [ok |-> FALSE, width |-> 0, height |-> 0, y |-> 0]]

\* extractCardNumberRegion(canvas) on the frame canvas held in extraction.
ExtractRegion ==
  /\ ~extraction.done
  /\ extraction' = [extraction EXCEPT
                      !.done = TRUE,
                      !.region = ExtractCardNumberRegion(extraction.width, extraction.height,
                                                         extraction.ctxOk)]
  /\ UNCHANGED <<mounted, intervalOn, scanVars, cameraVars, ocrVars, lastAccepted,
                 lastEvent, validation, selection, recognition, display, canvas>>

\* The result panel before a detection is rendered in it.
NoDisplay == [number |-> NoNumber, showFullNumber |-> FALSE, rendered |-> FALSE, text |-> <<>>]

\* CardScanner renders the detection result it holds.
RenderDetectedCard ==
  /\ display.number # NoNumber
  /\ ~display.rendered
  /\ display' = [display EXCEPT
                   !.rendered = TRUE,
                   !.text = NumberDisplay(display.number, display.showFullNumber)]
  /\ UNCHANGED <<mounted, intervalOn, scanVars, cameraVars, ocrVars, lastAccepted,
                 lastEvent, validation, selection, recognition, canvas, extraction>>

\* The Show/Hide button: setShowFullNumber(!showFullNumber) and the re-render.
ToggleShowFullNumber ==
  /\ display.rendered
  /\ display' = [display EXCEPT
                   !.showFullNumber = ~display.showFullNumber,
                   !.text = NumberDisplay(display.number, ~display.showFullNumber)]
  /\ UNCHANGED <<mounted, intervalOn, scanVars, cameraVars, ocrVars, lastAccepted,
                 lastEvent, validation, selection, recognition, canvas, extraction>>

\* retryOCRInit()
RetryOCRInit ==
  /\ mounted
  /\ ocrRetryCount < MaxRetryCount
  /\ OcrCommit(ocrRetryCount + 1, tesseractWorker, NoError, TRUE, attempts, timers,
               terminated)
  /\ ocrLog' = [ocrLog EXCEPT !.manual = @ + 1,
                              !.afterTerminal = (ocrError # NoError),
                              !.backoffs = 0]
  /\ UNCHANGED <<probeVars, mounted, scanVars, cameraVars, lastAccepted, variant, nWorkers>>
  /\ EnvDone

\* --------------------------------------------------------------- useCamera
NoVideo ==
  [srcObject |-> 0, readyState |-> 0, videoWidth |-> 0, videoHeight |-> 0,
   playing |-> FALSE, onloadedmetadata |-> "none", listeners |-> FALSE]

\* video.srcObject = s: the element loads the new source from nothing.
Attach(v, s, metaHandler, fullListeners) ==
  [v EXCEPT !.srcObject = s, !.readyState = 0, !.videoWidth = 0, !.videoHeight = 0,
            !.playing = FALSE, !.onloadedmetadata = metaHandler,
            !.listeners = v.listeners \/ fullListeners]

ErrorKinds ==
  {"NotAllowedError", "NotFoundError", "NotReadableError", "OverconstrainedError",
   "AbortError", "Error"}

\* The message property of a rejection of each kind.
ErrorText(kind) ==
  CASE kind = "NotAllowedError" -> "Permission denied"
    [] kind = "NotFoundError" -> "Requested device not found"
    [] kind = "NotReadableError" -> "Could not start video source"
    [] kind = "OverconstrainedError" -> ""
    [] kind = "AbortError" -> "Starting videoinput failed"
    [] OTHER -> "Camera access is not supported in this browser"

NoFailure == [name |-> "none", message |-> ""]

\* The error state: the empty string, a fixed text, or a template literal's
\* fixed part followed by the text interpolated into it.
NoMessage == <<>>

\* A handleCameraError whose last branch leaves the message out.
CameraErrorMessageBare(kind, message) ==
  CASE kind = "NotAllowedError" ->
         <<"Camera access denied. Please allow camera permissions and try again.">>
    [] kind = "NotFoundError" ->
         <<"No camera found. Please connect a camera and try again.">>
    [] kind = "NotReadableError" ->
         <<"Camera is already in use by another application.">>
    [] OTHER -> <<"Camera error: ">>

\* handleCameraError: the message for an error that is not retried.
CameraErrorMessage(kind, message) ==
  CASE kind = "NotAllowedError" ->
         <<"Camera access denied. Please allow camera permissions and try again.">>
    [] kind = "NotFoundError" ->
         <<"No camera found. Please connect a camera and try again.">>
    [] kind = "NotReadableError" ->
         <<"Camera is already in use by another application.">>
    [] OTHER -> <<"Camera error: ", message>>

\* The errors getUserMedia rejects with; "Error" is what startCamera itself
\* throws.
RejectionKinds == ErrorKinds \ {"Error"}

\* Whether the browser can be one without mediaDevices.getUserMedia (it has
\* then never taken a request), and whether it can be one with it.
MayLackGetUserMedia ==
  nStreams = 0 /\ requests.full + requests.simple = 0 /\ cameraFailure.name \in {"none", "Error"}

MayHaveGetUserMedia == cameraFailure.name # "Error"

\* startCamera() up to the getUserMedia await (or its throw when the browser
\* has no mediaDevices.getUserMedia).
StartCamera ==
  \E supported \in BOOLEAN :
    /\ mounted
    /\ IF supported THEN MayHaveGetUserMedia ELSE MayLackGetUserMedia
    /\ requests.full + requests.simple < MaxRequests
    /\ cameraStatus' = "Requesting camera access..."
    /\ IF supported
         THEN /\ requests' = [requests EXCEPT !.full = @ + 1]
              /\ cameraError' = NoMessage
              /\ UNCHANGED cameraFailure
         ELSE /\ requests' = requests
              /\ cameraFailure' = [name |-> "Error", message |-> ErrorText("Error")]
              /\ cameraError' = CameraErrorMessage("Error", ErrorText("Error"))
    /\ UNCHANGED <<probeVars, mounted, scanVars, ocrVars, lastAccepted, stream, isVideoReady,
                   nStreams, liveStreams, video>>
    /\ EnvDone

\* getUserMedia({video: defaultSettings}) resolves with a stream.
StreamObtained ==
  /\ requests.full > 0
  /\ nStreams < MaxStreams
  /\ requests' = [requests EXCEPT !.full = @ - 1]
  /\ nStreams' = nStreams + 1
  /\ liveStreams' = liveStreams \cup {nStreams + 1}
  /\ IF mounted
       THEN /\ stream' = nStreams + 1
            /\ cameraStatus' = "Camera stream obtained, setting up video..."
            /\ video' = Attach(video, nStreams + 1, "status", TRUE)
       ELSE UNCHANGED <<stream, cameraStatus, video>>
  /\ UNCHANGED <<probeVars, mounted, scanVars, ocrVars, lastAccepted, isVideoReady, cameraError,
                 cameraFailure>>
  /\ EnvDone

\* A handleCameraError that retries nothing.
AfterRefusalNoRetry(req, kind) == [req EXCEPT !.full = @ - 1]

\* The requests outstanding once handleCameraError has run up to its await or
\* its end: the rejected one is gone, and for OverconstrainedError
\* getUserMedia({video: true}) has been called.
AfterRefusal(req, kind) ==
  IF kind = "OverconstrainedError"
    THEN [req EXCEPT !.full = @ - 1, !.simple = @ + 1]
    ELSE [req EXCEPT !.full = @ - 1]

\* getUserMedia({video: defaultSettings}) rejects: handleCameraError.
StreamRefused ==
  \E kind \in RejectionKinds :
    /\ requests.full > 0
    /\ cameraFailure' = [name |-> kind, message |-> ErrorText(kind)]
    /\ requests' = AfterRefusal(requests, kind)
    /\ IF kind = "OverconstrainedError"
         THEN UNCHANGED cameraError
         ELSE cameraError' = IF mounted
                                  THEN CameraErrorMessage(kind, ErrorText(kind))
                                  ELSE cameraError
    /\ UNCHANGED <<probeVars, mounted, scanVars, ocrVars, lastAccepted, stream, isVideoReady,
                   cameraStatus, nStreams, liveStreams, video>>
    /\ EnvDone

\* The retry getUserMedia({video: true}) of handleCameraError settles.
SimpleStreamSettled ==
  \E ok \in BOOLEAN :
    /\ requests.simple > 0
    /\ ok => nStreams < MaxStreams
    /\ requests' = [requests EXCEPT !.simple = @ - 1]
    /\ IF ok
         THEN /\ nStreams' = nStreams + 1
              /\ liveStreams' = liveStreams \cup {nStreams + 1}
              /\ IF mounted
                   THEN /\ stream' = nStreams + 1
                        /\ video' = Attach(video, nStreams + 1, "play", FALSE)
                   ELSE UNCHANGED <<stream, video>>
              /\ UNCHANGED cameraError
         ELSE /\ cameraError' = IF mounted
                                  THEN <<"Camera access failed with simplified settings.">>
                                  ELSE cameraError
              /\ UNCHANGED <<nStreams, liveStreams, stream, video>>
    /\ UNCHANGED <<probeVars, mounted, scanVars, ocrVars, lastAccepted, isVideoReady, cameraStatus,
                   cameraFailure>>
    /\ EnvDone

\* The element's media events, fired while it is in the document and its
\* source has live tracks.
VideoLoadedMetadata ==
  /\ mounted
  /\ video.srcObject \in liveStreams
  /\ video.readyState = 0
  /\ video' = [video EXCEPT !.readyState = 1, !.videoWidth = FrameW,
                             !.videoHeight = FrameH]
  /\ cameraStatus' = IF video.onloadedmetadata = "status"
                       THEN "Video metadata loaded, starting playback..."
                       ELSE cameraStatus
  /\ UNCHANGED <<probeVars, mounted, scanVars, ocrVars, lastAccepted, stream, isVideoReady,
                 cameraError, cameraFailure, requests, nStreams, liveStreams>>
  /\ EnvDone

VideoLoadedData ==
  /\ mounted
  /\ video.srcObject \in liveStreams
  /\ video.readyState = 1
  /\ video' = [video EXCEPT !.readyState = HaveCurrentData]
  /\ UNCHANGED <<probeVars, mounted, scanVars, ocrVars, lastAccepted, stream, isVideoReady,
                 cameraError, cameraFailure, cameraStatus, requests, nStreams, liveStreams>>
  /\ EnvDone

VideoCanPlay ==
  /\ mounted
  /\ video.srcObject \in liveStreams
  /\ video.readyState = HaveCurrentData
  /\ video' = [video EXCEPT !.readyState = HaveCurrentData + 1]
  /\ cameraStatus' = IF video.listeners THEN "Camera ready" ELSE cameraStatus
  /\ UNCHANGED <<probeVars, mounted, scanVars, ocrVars, lastAccepted, stream, isVideoReady,
                 cameraError, cameraFailure, requests, nStreams, liveStreams>>
  /\ EnvDone

VideoPlaying ==
  /\ mounted
  /\ video.srcObject \in liveStreams
  /\ video.readyState > HaveCurrentData
  /\ ~video.playing
  /\ video' = [video EXCEPT !.playing = TRUE]
  /\ IF video.listeners
       THEN /\ cameraStatus' = "Camera active"
            /\ isVideoReady' = TRUE
       ELSE UNCHANGED <<cameraStatus, isVideoReady>>
  /\ UNCHANGED <<probeVars, mounted, scanVars, ocrVars, lastAccepted, stream, cameraError,
                 cameraFailure, requests, nStreams, liveStreams>>
  /\ EnvDone

\* A stopCamera that drops the handle and leaves the tracks running.
TracksKept(live, s) == live

\* stream.getTracks().forEach((track) => track.stop())
TracksStopped(live, s) == live \ {s}

\* stopCamera().  The element keeps its srcObject; whether it keeps showing
\* the last frame (readyState and dimensions kept) is the browser's choice.
StopCamera ==
  \E keepsFrame \in BOOLEAN :
    /\ mounted
    /\ IF stream # 0
         THEN /\ liveStreams' = TracksStopped(liveStreams, stream)
              /\ stream' = 0
              /\ video' = IF video.srcObject = stream /\ ~keepsFrame
                             THEN [video EXCEPT !.readyState = 0, !.videoWidth = 0,
                                                !.videoHeight = 0, !.playing = FALSE]
                             ELSE [video EXCEPT !.playing =
                                     IF video.srcObject = stream THEN FALSE ELSE @]
         ELSE UNCHANGED <<liveStreams, stream, video>>
    /\ cameraStatus' = "Camera stopped"
    /\ isVideoReady' = FALSE
    /\ UNCHANGED <<probeVars, mounted, scanVars, ocrVars, lastAccepted, cameraError,
                   cameraFailure, requests, nStreams>>
    /\ EnvDone

\* forceVideoPlay(): videoRef.current.play() and the settling of its promise.
\* On an element that is not playing and has data to show, play() fires the
\* playing event before it resolves; whether it does so on a source whose
\* tracks were stopped is the browser's choice, as is a rejection.
ForceVideoPlay ==
  \E ok \in BOOLEAN, fires \in BOOLEAN :
    /\ mounted
    /\ video.srcObject # 0
    /\ ok => video.readyState > HaveCurrentData
    /\ (video.srcObject \in liveStreams /\ ok) => fires
    /\ IF ok
         THEN /\ cameraStatus' = "Video manually started"
              /\ UNCHANGED cameraError
              /\ IF fires /\ ~video.playing
                   THEN /\ video' = [video EXCEPT !.playing = TRUE]
                        /\ isVideoReady' = IF video.listeners THEN TRUE ELSE isVideoReady
                   ELSE UNCHANGED <<video, isVideoReady>>
         ELSE /\ cameraError' = <<"Manual video play failed: ", "play() was interrupted">>
              /\ UNCHANGED <<cameraStatus, video, isVideoReady>>
    /\ UNCHANGED <<probeVars, mounted, scanVars, ocrVars, lastAccepted, stream, cameraFailure,
                   requests, nStreams, liveStreams>>
    /\ EnvDone

\* ---------------------------------------------------------- useCardScanner
NoCard == [number |-> NoNumber, confidence |-> 0, timestamp |-> 0]

Rep(c, n) == [i \in 1..n |-> c]

\* Recognition results the OCR backend is taken to report while scanning.
TextSpaced ==
  <<"4">> \o Rep("1", 3) \o <<" ">> \o Rep("1", 4) \o <<" ">> \o Rep("1", 4)
    \o <<" ">> \o Rep("1", 4)
TextPlain == Rep("5", 12) \o <<"0", "0", "0", "4">>
TextMalformed == <<"4", "1", "1", " ">> \o Rep("1", 13)
ScanTexts == {TextSpaced, TextPlain, TextMalformed}
ScanConfidences == {600, 601}

\* processFrame with the busy guard left out of its guards.
TickSkippedIgnoringBusy(worker, processing, v) ==
  \/ worker = 0
  \/ v.readyState < HaveCurrentData
  \/ v.videoWidth = 0
  \/ v.videoHeight = 0

\* processFrame with the frame checks of lines 80-84 left out.
TickSkippedIgnoringFrame(worker, processing, v) == worker = 0 \/ processing

\* The guards of processFrame (lines 68-91): the firing returns at once.
TickSkipped(worker, processing, v) ==
  \/ worker = 0
  \/ processing
  \/ v.readyState < HaveCurrentData
  \/ v.videoWidth = 0
  \/ v.videoHeight = 0

\* A store that updates the held detection in place instead of replacing it.
MergedDetectedCard(number, confidence, t) ==
  IF detectedCard.number = NoNumber
    THEN [number |-> number, confidence |-> confidence, timestamp |-> t]
    ELSE [detectedCard EXCEPT !.confidence = confidence]

\* The object handed to setDetectedCard.
NewDetectedCard(number, confidence, t) ==
  [number |-> number, confidence |-> confidence, timestamp |-> t]

\* The busy guard after the toBlob callback got no blob: `if (!blob) return`
\* leaves before the try/finally that clears it.
BusyAfterNoBlob(processing) == processing

\* A finally block that clears nothing.
BusyKeptAfterSettle(processing) == processing

\* The finally block of the toBlob callback: setIsProcessing(false).
BusyAfterSettle(processing) == FALSE

\* The check of toggleScanning before it turns scanning on.
ToggleAllowed(v) == v.readyState >= HaveCurrentData /\ v.videoWidth > 0

RemoveAt(q, i) == SubSeq(q, 1, i - 1) \o SubSeq(q, i + 1, Len(q))

NoValidation == [text |-> <<>>, confidence |-> 0, done |-> FALSE, number |-> NoNumber]

\* Lines 141-146 of processFrame on the recognition result held in
\* validation: the verdict is recorded with the number the tick would store.
Validate ==
  /\ ~validation.done
  /\ validation' = [validation EXCEPT
                      !.done = TRUE,
                      !.number = ValidateCard(validation.text, validation.confidence)]
  /\ UNCHANGED <<mounted, intervalOn, scanVars, cameraVars, ocrVars, lastAccepted,
                 lastEvent, selection, recognition, display, canvas, extraction>>

\* The interval fires: processFrame up to canvas.toBlob.  frameOk is whether
\* drawing and reading the frame succeed, ctxOk whether the region canvas
\* gives a drawing context.
TimerFire ==
  \E frameOk \in BOOLEAN, ctxOk \in BOOLEAN :
    /\ intervalOn
    /\ IF TickSkipped(tesseractWorker, isProcessing, video)
         THEN /\ UNCHANGED <<isProcessing, inflight>>
              /\ lastEvent' = "TickSkipped"
         ELSE IF ~frameOk
           THEN /\ UNCHANGED <<isProcessing, inflight>>
                /\ lastEvent' = "TickFrameError"
           ELSE IF ~ExtractCardNumberRegion(video.videoWidth, video.videoHeight, ctxOk).ok
             THEN /\ UNCHANGED <<isProcessing, inflight>>
                  /\ lastEvent' = "TickRegionError"
             ELSE /\ Len(inflight) < MaxInFlight
                  /\ isProcessing' = TRUE
                  /\ inflight' = Append(inflight,
                                   [stage |-> "toBlob", worker |-> tesseractWorker])
                  /\ lastEvent' = "TickStarted"
    /\ UNCHANGED <<probeVars, mounted, intervalOn, isScanning, detectedCard, overlay, now,
                   cameraVars, ocrVars, lastAccepted>>

\* The toBlob callback runs: without a blob it returns, with one it calls
\* recognizeText of the render the tick started in.
BlobReady ==
  \E i \in 1..Len(inflight), blobOk \in BOOLEAN :
    /\ inflight[i].stage = "toBlob"
    /\ IF blobOk
         THEN /\ inflight' = [inflight EXCEPT ![i].stage = "recognize"]
              /\ UNCHANGED isProcessing
              /\ lastEvent' = "TickRecognizing"
         ELSE /\ inflight' = RemoveAt(inflight, i)
              /\ isProcessing' = BusyAfterNoBlob(isProcessing)
              /\ lastEvent' = "TickNoBlob"
    /\ UNCHANGED <<probeVars, mounted, intervalOn, isScanning, detectedCard, overlay, now,
                   cameraVars, ocrVars, lastAccepted>>

\* worker.recognize settles: validation, the store of the detection, the
\* overlay, and the finally block.  A terminated worker gives no result.
RecognizeSettled ==
  \E i \in 1..Len(inflight), ok \in BOOLEAN, text \in ScanTexts,
     confidence \in ScanConfidences, t \in {now + 1} :
    /\ inflight[i].stage = "recognize"
    /\ ok => inflight[i].worker \notin terminated
    /\ (ok /\ Accepts(text, confidence)) => now < MaxClock
    /\ inflight' = RemoveAt(inflight, i)
    /\ IF ~mounted
         THEN /\ UNCHANGED <<isProcessing, detectedCard, overlay, now, lastAccepted>>
              /\ lastEvent' = "TickAfterUnmount"
         ELSE /\ isProcessing' = BusyAfterSettle(isProcessing)
              /\ IF ok /\ Accepts(text, confidence)
                   THEN /\ detectedCard' =
                             NewDetectedCard(ValidateCard(text, confidence), confidence, t)
                        /\ lastAccepted' =
                             [number |-> ValidateCard(text, confidence),
                              confidence |-> confidence, timestamp |-> t]
                        /\ now' = t
                        /\ overlay' = DrawDetectionOverlay(video.videoWidth,
                                                           video.videoHeight, confidence)
                        /\ lastEvent' = "TickAccepted"
                   ELSE /\ UNCHANGED <<detectedCard, overlay, now, lastAccepted>>
                        /\ lastEvent' = IF ok THEN "TickRejected" ELSE "TickRecognizeError"
    /\ UNCHANGED <<probeVars, mounted, intervalOn, isScanning, cameraVars, ocrVars>>

\* A toggle that, turning the scan off, also abandons the tick in flight.
ToggleScanningCancelling ==
  /\ mounted
  /\ IF isScanning
       THEN /\ isScanning' = FALSE
            /\ inflight' = <<>>
            /\ isProcessing' = FALSE
            /\ UNCHANGED detectedCard
       ELSE /\ UNCHANGED <<inflight, isProcessing>>
            /\ IF ToggleAllowed(video)
                 THEN /\ isScanning' = TRUE
                      /\ detectedCard' = NoCard
                 ELSE UNCHANGED <<isScanning, detectedCard>>
  /\ UNCHANGED <<probeVars, mounted, overlay, now, cameraVars, ocrVars, lastAccepted>>
  /\ Done(IF isScanning THEN "ToggleOff"
           ELSE IF ToggleAllowed(video) THEN "ToggleOn" ELSE "ToggleRejected")

\* toggleScanning()
ToggleScanning ==
  /\ mounted
  /\ IF isScanning
       THEN /\ isScanning' = FALSE
            /\ UNCHANGED detectedCard
       ELSE IF ToggleAllowed(video)
         THEN /\ isScanning' = TRUE
              /\ detectedCard' = NoCard
         ELSE UNCHANGED <<isScanning, detectedCard>>
  /\ UNCHANGED <<probeVars, mounted, isProcessing, inflight, overlay, now, cameraVars, ocrVars,
                 lastAccepted>>
  /\ Done(IF isScanning THEN "ToggleOff"
           ELSE IF ToggleAllowed(video) THEN "ToggleOn" ELSE "ToggleRejected")

\* The component unmounts: the cleanups of the scanning effect and of the
\* useOCR effect run; useCamera registers no cleanup.
Unmount ==
  /\ mounted
  /\ mounted' = FALSE
  /\ attempts' = Unmounted(attempts)
  /\ timers' = Unmounted(timers)
  /\ terminated' = IF tesseractWorker # 0 THEN terminated \cup {tesseractWorker}
                                          ELSE terminated
  /\ UNCHANGED <<probeVars, scanVars, cameraVars, lastAccepted, variant, tesseractWorker,
                 isInitializingOCR, ocrRetryCount, ocrError, nWorkers, ocrLog>>
  /\ EnvDone

\* ----------------------------------------------------------- specification
\* The state after the first render and its effects: the useOCR effect has
\* called initWorker; nothing else has run.
InitHooks ==
  /\ mounted = TRUE
  /\ isScanning = FALSE
  /\ isProcessing = FALSE
  /\ detectedCard = NoCard
  /\ intervalOn = FALSE
  /\ inflight = <<>>
  /\ overlay = NoOverlay
  /\ now = 0
  /\ stream = 0
  /\ isVideoReady = FALSE
  /\ cameraError = NoMessage
  /\ cameraFailure = NoFailure
  /\ cameraStatus = "Not started"
  /\ requests = [full |-> 0, simple |-> 0]
  /\ nStreams = 0
  /\ liveStreams = {}
  /\ video = NoVideo
  /\ variant \in Variants
  /\ tesseractWorker = 0
  /\ isInitializingOCR = TRUE
  /\ ocrRetryCount = 0
  /\ ocrError = NoError
  /\ attempts = {NewAttempt(variant, 0)}
  /\ timers = {}
  /\ nWorkers = 0
  /\ terminated = {}
  /\ ocrLog = NoLog
  /\ lastAccepted = NoCard
  /\ lastEvent = "Mount"

Init ==
  /\ InitHooks
  /\ validation = NoValidation
  /\ selection = NoSelection
  /\ recognition = NoRecognition
  /\ display = NoDisplay
  /\ canvas = NoCanvas
  /\ extraction = NoExtraction

Next ==
  \/ TimerFire
  \/ BlobReady
  \/ RecognizeSettled
  \/ ToggleScanning
  \/ StartCamera
  \/ StreamObtained
  \/ StreamRefused
  \/ SimpleStreamSettled
  \/ VideoLoadedMetadata
  \/ VideoLoadedData
  \/ VideoCanPlay
  \/ VideoPlaying
  \/ StopCamera
  \/ ForceVideoPlay
  \/ ProbeWorkerDone
  \/ ProbeCoreDone
  \/ CreateWorkerDone
  \/ BackoffFire
  \/ RetryOCRInit
  \/ Unmount

Spec == Init /\ [][Next]_vars

\* The scan orchestrator with the part of its environment it reads: the
\* stream and the video element of the capture session (one acquisition at a
\* time, along the path on which getUserMedia succeeds) and the worker handle
\* the first initialization attempt installs or fails to install.
InitScan == Init /\ variant = "basic"

ScanNext ==
  \/ TimerFire
  \/ BlobReady
  \/ RecognizeSettled
  \/ ToggleScanning
  \/ StartCamera /\ stream = 0 /\ requests.full = 0
  \/ StreamObtained /\ nStreams < ScanStreams
  \/ VideoLoadedMetadata
  \/ VideoLoadedData
  \/ VideoCanPlay
  \/ VideoPlaying
  \/ StopCamera
  \/ CreateWorkerDone

SpecScan == InitScan /\ [][ScanNext]_vars

\* The validator alone, on recognition results drawn from texts built of four
\* digit groups (the last one possibly a digit short) with every choice of
\* separator between them and of leading character, and the texts the scan
\* specification uses.
ValSeparators == {<<>>, <<" ">>, <<"\t">>, <<"\n">>, <<" ", " ">>, <<"-">>}
ValPrefixes == {<<>>, <<"x">>, <<"9">>}
ValLastGroups == {<<"5", "6", "7", "8">>, <<"5", "6", "7">>}
ValTexts ==
  {pre \o <<"4", "1", "1", "1">> \o s1 \o Rep("2", 4) \o s2 \o Rep("3", 4) \o s3 \o last :
     pre \in ValPrefixes, s1 \in ValSeparators, s2 \in ValSeparators,
     s3 \in ValSeparators, last \in ValLastGroups}
  \cup {TextSpaced, TextPlain, TextMalformed}
ValConfidences == {600, 601}

InitValidate ==
  /\ InitHooks
  /\ variant = "basic"
  /\ \E text \in ValTexts, confidence \in ValConfidences :
       validation = [text |-> text, confidence |-> confidence, done |-> FALSE,
                     number |-> NoNumber]
  /\ selection = NoSelection
  /\ recognition = NoRecognition
  /\ display = NoDisplay
  /\ canvas = NoCanvas
  /\ extraction = NoExtraction

ValidateNext == Validate

SpecValidate == InitValidate /\ [][ValidateNext]_vars

\* The tier choice alone, in both source forms of the hook, on the retry
\* counts 0..MaxTierRetry and on 100.
TierRetryCounts == (0..MaxTierRetry) \cup {100}

InitTier ==
  /\ InitHooks
  /\ validation = NoValidation
  /\ recognition = NoRecognition
  /\ display = NoDisplay
  /\ canvas = NoCanvas
  /\ extraction = NoExtraction
  /\ \E r \in TierRetryCounts : selection = [retryCount |-> r, done |-> FALSE, tier |-> ""]

TierNext == SelectTier

SpecTier == InitTier /\ [][TierNext]_vars

\* The recognition engine manager alone, in both of its source forms.
OcrNext ==
  \/ ProbeWorkerDone
  \/ ProbeCoreDone
  \/ CreateWorkerDone
  \/ BackoffFire
  \/ RetryOCRInit
  \/ Unmount

SpecOcr == Init /\ [][OcrNext]_vars

\* recognizeText called at any moment of the manager's life.
RecognizeNext ==
  \/ CallRecognizeText
  \/ RecognizeTextSettled
  \/ CreateWorkerDone
  \/ RetryOCRInit
  \/ Unmount

SpecRecognize == Init /\ [][RecognizeNext]_vars

\* The result panel alone, on the numbers the validator accepts from texts of
\* sixteen digits.
DisplayPrefixes == {<<"4", "1", "1", "1">> \o Rep("1", 8), Rep("5", 12),
                    <<"4", "0", "0", "0">> \o Rep("2", 4) \o Rep("3", 4),
                    <<"0", "1", "2", "3", "4", "5", "6", "7", "8", "9", "0", "1">>}
DisplayLastDigits == {"0", "1", "9"}
DisplayNumbers ==
  {ValidateCard(pre \o <<a, b, c, d>>, ConfThreshold + 1) :
     pre \in DisplayPrefixes, a \in DisplayLastDigits, b \in DisplayLastDigits,
     c \in DisplayLastDigits, d \in DisplayLastDigits}

InitDisplay ==
  /\ InitHooks
  /\ variant = "basic"
  /\ validation = NoValidation
  /\ selection = NoSelection
  /\ recognition = NoRecognition
  /\ canvas = NoCanvas
  /\ extraction = NoExtraction
  /\ \E number \in DisplayNumbers : display = [NoDisplay EXCEPT !.number = number]

DisplayNext ==
  \/ RenderDetectedCard
  \/ ToggleShowFullNumber

SpecDisplay == InitDisplay /\ [][DisplayNext]_vars

\* setDetectedCard with a new detection, and the re-render of CardScanner:
\* showFullNumber is state of CardScanner and is kept as it is.
StoreDetectedCard ==
  \E number \in DisplayNumbers :
    /\ number # display.number
    /\ display' = [display EXCEPT
                     !.number = number,
                     !.rendered = TRUE,
                     !.text = NumberDisplay(number, display.showFullNumber)]
    /\ UNCHANGED <<mounted, intervalOn, scanVars, cameraVars, ocrVars, lastAccepted,
                   lastEvent, validation, selection, recognition, canvas, extraction>>

\* setDetectedCard(null) when scanning is turned on: the result panel leaves
\* the page, showFullNumber stays in CardScanner.
ClearDetectedCard ==
  /\ display.rendered
  /\ display' = [display EXCEPT !.number = NoNumber, !.rendered = FALSE, !.text = <<>>]
  /\ UNCHANGED <<mounted, intervalOn, scanVars, cameraVars, ocrVars, lastAccepted,
                 lastEvent, validation, selection, recognition, canvas, extraction>>

\* The result panel over a sequence of detections.
DetectionsNext ==
  \/ RenderDetectedCard
  \/ ToggleShowFullNumber
  \/ StoreDetectedCard
  \/ ClearDetectedCard

SpecDetections == InitDisplay /\ [][DetectionsNext]_vars

\* The preprocessor alone, on rasters of one pixel with every combination of
\* the sampled channel values and on rasters of two pixels.
ChannelValues == {0, 50, 68, 100, 128, 200, 204, 255}
AlphaValues == {128, 255}
Pixels == [r : ChannelValues, g : ChannelValues, b : ChannelValues, a : AlphaValues]
SecondPixels == {[r |-> 0, g |-> 204, b |-> 68, a |-> 255],
                 [r |-> 100, g |-> 100, b |-> 100, a |-> 0]}
Images ==
  {[width |-> 1, height |-> 1, data |-> <<p>>] : p \in Pixels}
    \cup {[width |-> 2, height |-> 1, data |-> <<p, q>>] : p \in Pixels, q \in SecondPixels}

InitPreprocess ==
  /\ InitHooks
  /\ variant = "basic"
  /\ validation = NoValidation
  /\ selection = NoSelection
  /\ recognition = NoRecognition
  /\ display = NoDisplay
  /\ extraction = NoExtraction
  /\ \E image \in Images : canvas = [NoCanvas EXCEPT !.image = image]

PreprocessNext == Preprocess

SpecPreprocess == InitPreprocess /\ [][PreprocessNext]_vars

\* The region extraction alone, on frame canvases of every size up to
\* ExtractMaxW x ExtractMaxH and of the video sizes the camera is asked for.
ExtractWidths == (0..ExtractMaxW) \cup {640, 1280}
ExtractHeights == (0..ExtractMaxH) \cup {480, 720}

InitExtract ==
  /\ InitHooks
  /\ variant = "basic"
  /\ validation = NoValidation
  /\ selection = NoSelection
  /\ recognition = NoRecognition
  /\ display = NoDisplay
  /\ canvas = NoCanvas
  /\ \E w \in ExtractWidths, h \in ExtractHeights, ctxOk \in BOOLEAN :
       extraction = [NoExtraction EXCEPT !.width = w, !.height = h, !.ctxOk = ctxOk]

ExtractNext == ExtractRegion

SpecExtract == InitExtract /\ [][ExtractNext]_vars

\* The capture session alone: startCamera and stopCamera called at any moment
\* of the component's life, every outcome of the stream requests, the video
\* element's events, and the unmount.
InitCamera == Init /\ variant = "basic"

CameraNext ==
  \/ StartCamera
  \/ StreamObtained
  \/ StreamRefused
  \/ SimpleStreamSettled
  \/ VideoLoadedMetadata
  \/ VideoLoadedData
  \/ VideoCanPlay
  \/ VideoPlaying
  \/ StopCamera
  \/ Unmount

SpecCamera == InitCamera /\ [][CameraNext]_vars

\* The capture session with the Play Video operation as well.
PlaybackNext ==
  \/ StartCamera
  \/ StreamObtained
  \/ StreamRefused
  \/ SimpleStreamSettled
  \/ VideoLoadedMetadata
  \/ VideoLoadedData
  \/ VideoCanPlay
  \/ VideoPlaying
  \/ StopCamera
  \/ ForceVideoPlay
  \/ Unmount

SpecPlayback == InitCamera /\ [][PlaybackNext]_vars

\* The same with the tiered source of the hook built.
InitTiered == Init /\ variant = "tiered"

SpecOcrTiered == InitTiered /\ [][OcrNext]_vars

\* The tiered manager left to itself: no retryOCRInit is called, while the
\* scan loop may call recognizeText at any moment.  Every probe and every
\* construction call settles, and every timeout set fires.
OcrAutoNext ==
  \/ ProbeWorkerDone
  \/ ProbeCoreDone
  \/ CreateWorkerDone
  \/ BackoffFire
  \/ CallRecognizeText
  \/ RecognizeTextSettled
  \/ Unmount

SpecOcrAuto ==
  /\ InitTiered
  /\ [][OcrAutoNext]_vars
  /\ WF_vars(ProbeWorkerDone)
  /\ WF_vars(ProbeCoreDone)
  /\ WF_vars(CreateWorkerDone)
  /\ WF_vars(BackoffFire)

\* ------------------------------------------------------- scan orchestrator
\* C1: at most one tick is in flight at any time, and a timer firing while
\* the busy guard is set changes nothing of the scanner and queues nothing.
C1_OneTickInFlight ==
  /\ [](Len(inflight) <= 1)
  /\ [][(TimerFire /\ isProcessing)
          => UNCHANGED <<inflight, isProcessing, detectedCard, isScanning>>]_vars

\* A timer fired while a tick was in flight and was skipped.
C1_FiringDuringTick == lastEvent = "TickSkipped" /\ Len(inflight) = 1 /\ isProcessing

\* C2: every tick that set the busy guard has cleared it once it has left
\* processFrame, on every exit path.
C2_BusyClearedOnEveryExit == inflight = <<>> => ~isProcessing

\* C3: a tick whose region extraction or recognize call throws clears the
\* busy guard, leaves detectedCard, isScanning and both error strings as they
\* were, and leaves the timer installed.
C3_FailedTickSwallowed ==
  [][(\/ TimerFire /\ lastEvent' = "TickRegionError"
      \/ RecognizeSettled /\ lastEvent' = "TickRecognizeError")
       => /\ ~isProcessing'
          /\ inflight' = <<>>
          /\ UNCHANGED <<detectedCard, isScanning, cameraError, ocrError, intervalOn>>]_vars

\* A recognize call threw while the scan was on, and the timer is still there.
C3_RecognitionThrew ==
  lastEvent = "TickRecognizeError" /\ intervalOn /\ ~isProcessing /\ ocrError = NoError

AllDigits(number) == \A i \in 1..Len(number) : number[i] \in Digits

\* C5: detectedCard is absent or is exactly the detection of the most recent
\* accepted tick, a 16-digit number with confidence above 60; only an
\* accepted tick writes it and only toggleScanning turning the scan on
\* clears it.
C5_DetectedCardIsLastAccepted ==
  /\ [](\/ detectedCard = NoCard
        \/ /\ detectedCard = lastAccepted
           /\ Len(detectedCard.number) = 16
           /\ AllDigits(detectedCard.number)
           /\ detectedCard.confidence > ConfThreshold
           /\ detectedCard.timestamp = now)
  /\ [][detectedCard' # detectedCard
          => \/ RecognizeSettled /\ lastEvent' = "TickAccepted"
             \/ ToggleScanning /\ ~isScanning /\ isScanning' /\ detectedCard' = NoCard]_vars

\* A second accepted tick has replaced the detection of the first.
C5_DetectionReplaced ==
  lastEvent = "TickAccepted" /\ detectedCard.timestamp = 2 /\ detectedCard = lastAccepted

\* C6: toggleScanning called while the scan is off and the capture is not
\* Playing (isVideoReady false), or the frame has a zero dimension, changes
\* none of isScanning, detectedCard, isProcessing.
C6_ToggleRejectedUnlessPlaying ==
  [][(/\ ToggleScanning
      /\ ~isScanning
      /\ (~isVideoReady \/ video.videoWidth = 0 \/ video.videoHeight = 0))
       => UNCHANGED <<isScanning, detectedCard, isProcessing>>]_vars

\* C7: the timer is installed exactly while the scan is on and a stream is
\* held, so a firing, and with it the start of a tick, happens only then.
C7_TicksOnlyWhileScanningWithStream ==
  /\ [](intervalOn <=> (isScanning /\ stream # 0))
  /\ [][TimerFire => (isScanning /\ stream # 0)]_vars

\* stopCamera cleared the stream after a tick had begun: the scan is still
\* on and the timer is gone.
C7_TimerCancelledByStop ==
  lastEvent = "TickStarted" /\ isScanning /\ stream = 0 /\ ~intervalOn

\* C8: turning the scan off leaves the tick in flight and its busy guard
\* alone; the tick settles as it would have with the scan on, storing its
\* detection when accepted and clearing the guard.
C8_ToggleOffSparesTick ==
  [][/\ (ToggleScanning /\ isScanning) => UNCHANGED <<inflight, isProcessing, detectedCard>>
     /\ (RecognizeSettled /\ ~isScanning)
          => /\ ~isProcessing'
             /\ lastEvent' = "TickAccepted"
                  => detectedCard' = lastAccepted' /\ detectedCard' # NoCard]_vars

\* A tick accepted and stored its detection after the scan was turned off.
C8_AcceptedAfterToggleOff ==
  /\ lastEvent = "TickAccepted"
  /\ ~isScanning
  /\ detectedCard # NoCard
  /\ ~isProcessing

\* C9: a timer firing with the busy guard set, no worker installed, or a
\* frame that fails the readyState or dimension checks changes nothing of
\* the scanner and hands nothing to recognition.
C9_SkippedFiringChangesNothing ==
  [][(/\ TimerFire
      /\ \/ isProcessing
         \/ tesseractWorker = 0
         \/ video.readyState < 2
         \/ video.videoWidth = 0
         \/ video.videoHeight = 0)
       => /\ UNCHANGED <<isProcessing, detectedCard, isScanning, inflight, overlay>>
          /\ lastEvent' = "TickSkipped"]_vars

\* A firing was skipped because the frame was not ready, with a worker
\* installed and the busy guard clear.
C9_SkippedForFrame ==
  /\ lastEvent = "TickSkipped"
  /\ intervalOn
  /\ tesseractWorker # 0
  /\ ~isProcessing
  /\ video.readyState < 2

\* ------------------------------------------------------------- validator
\* What the claim calls a run of 16 digits in groups of 4: at position i of
\* text, four groups of four digits where gap[k] = 1 places one character of
\* sep between group k and group k + 1 and gap[k] = 0 places nothing.
Gaps == [1..3 -> {0, 1}]

GroupOffset(gap, k) ==
  4 * (k - 1) + (IF k > 1 THEN gap[1] ELSE 0) + (IF k > 2 THEN gap[2] ELSE 0)
              + (IF k > 3 THEN gap[3] ELSE 0)

GroupedRunAt(text, i, gap, sep) ==
  /\ i + GroupOffset(gap, 4) + 3 <= Len(text)
  /\ \A k \in 1..4, j \in 0..3 : text[i + GroupOffset(gap, k) + j] \in Digits
  /\ \A k \in 1..3 : gap[k] = 1 => text[i + GroupOffset(gap, k) + 4] \in sep

RunStarts(text, sep) ==
  {i \in 1..Len(text) : \E gap \in Gaps : GroupedRunAt(text, i, gap, sep)}

\* The 16 digits of the leftmost such run.
FirstRunDigits(text, sep) ==
  LET i == CHOOSE x \in RunStarts(text, sep) : \A y \in RunStarts(text, sep) : x <= y
      gap == CHOOSE g \in Gaps : GroupedRunAt(text, i, g, sep)
  IN [n \in 1..16 |-> text[i + GroupOffset(gap, ((n - 1) \div 4) + 1) + ((n - 1) % 4)]]

\* The verdict the claim prescribes, in the form ValidateCard reports it.
Prescribed(text, confidence, sep) ==
  IF RunStarts(text, sep) # {} /\ confidence > 600
    THEN FirstRunDigits(text, sep)
    ELSE NoNumber

\* C4 as stated: the validator accepts exactly the texts holding 16 digits in
\* groups of 4 with at most one space character between groups, at a
\* confidence above 60, and the accepted number is the first such run without
\* its spaces.
C4_AcceptsIffSingleSpaces ==
  validation.done
    => validation.number = Prescribed(validation.text, validation.confidence, {" "})

\* C4 with any one whitespace character (space, tab, line break) allowed
\* between groups in place of a space.
C4_AcceptsIffSingleWhitespace ==
  validation.done
    => validation.number = Prescribed(validation.text, validation.confidence, Whitespace)

\* A text with a tab and a line break between groups was accepted at
\* confidence 60.1, and its first run starts after a leading digit.
C4_AcceptedAcrossWhitespace ==
  /\ validation.done
  /\ validation.confidence = 601
  /\ validation.text = <<"9", "4", "1", "1", "1", "\t">> \o Rep("2", 4) \o <<"\n">>
                          \o Rep("3", 4) \o <<"5", "6", "7", "8">>
  /\ validation.number = <<"4", "1", "1", "1">> \o Rep("2", 4) \o Rep("3", 4)
                            \o <<"5", "6", "7", "8">>

\* ------------------------------------------------ recognition engine manager
\* Attempt a, made by the effect run in force, fails in this step: a probe or
\* the constructor settles, no worker is constructed and the attempt is gone.
AttemptFails(a) ==
  /\ a \in attempts
  /\ a.isMounted
  /\ ProbeCoreDone \/ CreateWorkerDone
  /\ nWorkers' = nWorkers
  /\ \A b \in attempts' : b.retry # a.retry

\* C10: a failed attempt made with retryCount < 3 surfaces no error and
\* schedules one backoff, whose firing raises retryCount by one and starts
\* exactly one attempt at the new count; a failed attempt made with
\* retryCount >= 3 schedules nothing and surfaces a terminal error.
C10_BoundedAutoRetry ==
  [][/\ \A a \in attempts :
          AttemptFails(a)
            => IF a.retry < 3
                 THEN /\ ocrError' = NoError
                      /\ isInitializingOCR'
                      /\ ocrRetryCount' = ocrRetryCount
                      /\ timers' = timers \cup {[retry |-> a.retry, isMounted |-> TRUE]}
                      /\ Cardinality(timers') = Cardinality(timers) + 1
                 ELSE /\ timers' = timers
                      /\ ocrError' # NoError
                      /\ ~isInitializingOCR'
                      /\ ocrRetryCount' = ocrRetryCount
     /\ \A t \in timers :
          (BackoffFire /\ t.isMounted /\ t \notin timers')
            => /\ ocrRetryCount' = t.retry + 1
               /\ {b \in attempts' : b.isMounted} = {NewAttempt(variant, t.retry + 1)}]_vars

\* The ordered list of tiers the claims speak of: local assets, CDN mirror A,
\* CDN mirror B, bundled default.
TierList == <<"Local WASM files", "jsDelivr CDN", "unpkg CDN", "Default bundled">>

\* C11: an attempt made at retryCount uses the tier of index
\* min(retryCount, 3) of that list: 0, 1, 2, 3, 3, 3 for 0, 1, 2, 3, 4, 100.
C11_TierIsMinOfRetryCount ==
  selection.done
    => selection.tier =
         TierList[(IF selection.retryCount < 3 THEN selection.retryCount ELSE 3) + 1]

\* C12 (Scenario D): with no retryOCRInit call, as long as attempts have
\* failed on tiers 0, 1, 2 only no error is surfaced, and once the attempt on
\* tier 3 has installed the worker the run is over with retryCount = 3,
\* isInitializingOCR false and no error.
C12_ScenarioD ==
  /\ (ocrLog.manual = 0 /\ ocrLog.failedAt \subseteq {0, 1, 2}) => ocrError = NoError
  /\ (ocrLog.manual = 0 /\ ocrLog.failedAt = {0, 1, 2} /\ tesseractWorker # 0)
       => /\ ocrRetryCount = 3
          /\ ~isInitializingOCR
          /\ ocrError = NoError
          /\ attempts = {}
          /\ timers = {}

\* Tiers 0, 1 and 2 failed and the attempt on tier 3 installed the worker.
C12_InstalledOnTierThree ==
  /\ ocrLog.manual = 0
  /\ ocrLog.failedAt = {0, 1, 2}
  /\ tesseractWorker # 0
  /\ mounted

\* C13 (Scenario E): with no retryOCRInit call, once the attempts at
\* retryCount 0..3 have all failed the error names 4 attempts and carries the
\* message of the last failure, no worker is installed, isInitializingOCR is
\* false, and no attempt or backoff is pending.
C13_ScenarioE ==
  (ocrLog.manual = 0 /\ ocrLog.failedAt = {0, 1, 2, 3})
    => /\ ocrError.kind = "after attempts"
       /\ ocrError.attempts = 4
       /\ ocrError.msg = ocrLog.lastMsg
       /\ ocrError.msg # ""
       /\ tesseractWorker = 0
       /\ ~isInitializingOCR
       /\ attempts = {}
       /\ timers = {}

\* All four automatic attempts failed.
C13_FourAttemptsFailed ==
  /\ ocrLog.manual = 0
  /\ ocrLog.failedAt = {0, 1, 2, 3}
  /\ ocrRetryCount = 3
  /\ mounted

\* C14: no initialization attempt begins while an earlier attempt's probe or
\* construction is still outstanding: whenever a task leaves a new attempt
\* suspended, no attempt other than the one that task completed was pending.
C14_NoConcurrentAttempt ==
  [][\A a \in attempts' :
       (\A b \in attempts : b.retry # a.retry) => attempts = {}]_vars

\* C15: every worker the backend constructor returned is the installed handle
\* or has been terminated, so at most one constructed worker is unterminated;
\* after teardown the installed handle is terminated too.
C15_OneLiveWorker ==
  /\ \A w \in 1..nWorkers : w = tesseractWorker \/ w \in terminated
  /\ Cardinality((1..nWorkers) \ terminated) <= 1
  /\ (~mounted /\ tesseractWorker # 0) => tesseractWorker \in terminated

\* Torn down with a handle installed, after a superseded attempt's worker had
\* been terminated.
C15_TornDownWithHandle ==
  /\ ~mounted
  /\ nWorkers = 2
  /\ tesseractWorker # 0
  /\ terminated = {1, 2}

\* C16: after teardown the installed handle never changes, and a worker
\* constructed by an attempt that was outstanding at teardown is terminated
\* in the task that receives it, which changes no state of the hooks.
C16_LateSuccessReleased ==
  [][~mounted =>
       /\ tesseractWorker' = tesseractWorker
       /\ nWorkers' # nWorkers
            => /\ nWorkers' \in terminated'
               /\ UNCHANGED <<isInitializingOCR, ocrRetryCount, ocrError, timers, ocrLog,
                              scanVars, cameraVars, intervalOn>>]_vars

\* The only attempt ever made was outstanding at teardown and succeeded
\* afterwards: its worker is terminated and no handle is installed.
C16_SucceededAfterTeardown ==
  /\ ~mounted
  /\ ocrRetryCount = 0
  /\ ocrLog.manual = 0
  /\ nWorkers = 1
  /\ terminated = {1}
  /\ tesseractWorker = 0
  /\ attempts = {}

\* C17: a recognizeText call that sees no installed handle ends at once with
\* the "not initialized" error and never calls the backend; one that sees a
\* handle calls the backend and, when that resolves, returns exactly the text
\* and confidence the backend reported.
C17_RecognizeText ==
  /\ (recognition.stage # "idle" /\ recognition.worker = 0)
       => /\ recognition.stage = "done"
          /\ recognition.outcome = "OCR worker not initialized"
          /\ ~recognition.called
  /\ (recognition.stage # "idle" /\ recognition.worker # 0)
       => /\ recognition.called
          /\ recognition.outcome # "OCR worker not initialized"
          /\ recognition.outcome = "returned"
               => /\ recognition.text = recognition.reported.text
                  /\ recognition.confidence = recognition.reported.confidence

\* A call with a handle returned a text read with confidence 87.
C17_ReturnedBackendData ==
  /\ recognition.outcome = "returned"
  /\ recognition.worker # 0
  /\ recognition.reported = [text |-> <<"4", "1">>, confidence |-> 87]

\* C18: in whatever state retryOCRInit is called, the task that handles it
\* leaves the error cleared and a new attempt in force at the new retry count.
C18_RetryReenters ==
  [][RetryOCRInit
       => /\ ocrError' = NoError
          /\ \E a \in attempts' : a.isMounted /\ a.retry = ocrRetryCount']_vars

\* C19: once retryOCRInit has been called on a surfaced terminal error, the
\* next terminal error is surfaced only after three backoff timeouts have
\* fired since that call.
C19_RetryResetsBookkeeping ==
  [][(ocrLog.afterTerminal /\ ocrError = NoError /\ ocrError' # NoError)
       => ocrLog.backoffs = AutoRetryLimit]_vars

\* C20: an attempt on tier 1 or 2 first awaits the probe of the worker
\* script, then the probe of the core binary, and reaches the backend
\* constructor only when both answered accessible; an attempt that ends in a
\* probe constructs nothing and is a failure with the probes' message; an
\* attempt on tier 0 or 3 is at the constructor from its start.
C20_ProbesBeforeConstructor ==
  [][/\ \A a \in attempts' :
          /\ a.retry \notin {1, 2} => a.stage = "create"
          /\ (a.retry \in {1, 2} /\ \A b \in attempts : b.retry # a.retry)
               => a.stage = "probeWorker"
          /\ (a.retry \in {1, 2} /\ a.stage = "probeCore")
               => \E b \in attempts :
                    b.retry = a.retry /\ b.stage \in {"probeWorker", "probeCore"}
          /\ (a.retry \in {1, 2} /\ a.stage = "create")
               => \E b \in attempts :
                    /\ b.retry = a.retry
                    /\ \/ b.stage = "create"
                       \/ b.stage = "probeCore" /\ b.workerAccessible
     /\ \A a \in attempts :
          (a.stage \in {"probeWorker", "probeCore"}
             /\ \A b \in attempts' : b.retry # a.retry)
            => /\ nWorkers' = nWorkers
               /\ a.isMounted => /\ a.retry \in ocrLog'.failedAt
                                 /\ ocrLog'.lastMsg = "CDN files not accessible"]_vars

\* The attempt on tier 1 failed in its probes with no worker constructed, and
\* the attempt on tier 2 has passed both probes and is at the constructor.
C20_ProbedThenConstructing ==
  /\ nWorkers = 0
  /\ 1 \in ocrLog.failedAt
  /\ ocrLog.lastMsg = "CDN files not accessible"
  /\ \E a \in attempts : a.retry = 2 /\ a.stage = "create" /\ a.isMounted

\* --------------------------------------------------------- capture session
\* The error kinds handleCameraError names, apart from the one it retries.
NamedKinds == {"NotAllowedError", "NotFoundError", "NotReadableError"}

\* A stream request of the mounted component has just failed for good: the
\* request was rejected with an error that is not retried, or the browser has
\* no getUserMedia.
RequestFailed ==
  /\ mounted
  /\ \/ StreamRefused /\ cameraFailure'.name # "OverconstrainedError"
     \/ StartCamera /\ requests' = requests

\* What a failed request surfaces: a fixed text for each named kind, different
\* for different kinds, and for any other error a text that carries the
\* error's own message.
MessageByKind ==
  /\ cameraError' # NoMessage
  /\ cameraFailure'.name \in NamedKinds => Len(cameraError') = 1
  /\ cameraFailure'.name \notin NamedKinds
       => /\ Len(cameraError') = 2
          /\ cameraError'[2] = cameraFailure'.message
  /\ \A k1, k2 \in ErrorKinds \ {"OverconstrainedError"} :
       (k1 \in NamedKinds /\ k1 # k2)
         => CameraErrorMessage(k1, ErrorText(k1))[1] # CameraErrorMessage(k2, ErrorText(k2))[1]

\* C21 as stated: a failed stream request surfaces the message of its error
\* kind, and no stream is held afterwards.
C21_FailureLeavesNoStream ==
  [][RequestFailed => MessageByKind /\ stream' = 0]_vars

\* C21: a failed stream request surfaces the message of its error kind and
\* installs no stream: the stream held afterwards is the one held before, so
\* none is held if none was.
C21_FailureSurfaced ==
  [][RequestFailed => MessageByKind /\ stream' = stream /\ liveStreams' = liveStreams]_vars

\* A request failed with an error of no named kind while an earlier request's
\* stream was held.
C21_FailedWhileStreaming ==
  /\ cameraFailure.name = "AbortError"
  /\ cameraError = <<"Camera error: ", "Starting videoinput failed">>
  /\ stream # 0
  /\ mounted

\* The request with the configured constraints was rejected as unsatisfiable.
ConstraintsRefused == StreamRefused /\ cameraFailure'.name = "OverconstrainedError"

\* The retry request has just resolved, or has just been rejected.
RetrySucceeded == SimpleStreamSettled /\ nStreams' # nStreams

RetryFailed == SimpleStreamSettled /\ nStreams' = nStreams

\* What holds of the retry whatever else is going on: the rejection calls
\* getUserMedia once more and surfaces nothing; a retry that resolves installs
\* its stream on the hook and on the video element and surfaces no error; a
\* retry that is rejected surfaces an error and calls getUserMedia no more.
RetriedOnce ==
  /\ ConstraintsRefused
       => /\ requests'.simple = requests.simple + 1
          /\ requests'.full = requests.full - 1
          /\ UNCHANGED <<cameraError, stream, liveStreams>>
  /\ (mounted /\ RetrySucceeded)
       => /\ stream' = nStreams'
          /\ stream' \in liveStreams'
          /\ video'.srcObject = stream'
          /\ UNCHANGED cameraError
          /\ requests' = [requests EXCEPT !.simple = @ - 1]
  /\ (mounted /\ RetryFailed)
       => /\ cameraError' # NoMessage
          /\ requests' = [requests EXCEPT !.simple = @ - 1]

\* C22 as stated: unsatisfiable constraints are retried exactly once with the
\* default request; success installs the stream with no error, failure
\* surfaces an error with no third request, and then no stream is held.
C22_RetryFailureLeavesNoStream ==
  [][RetriedOnce /\ ((mounted /\ RetryFailed) => stream' = 0)]_vars

\* C22: the same, a failed retry leaving the stream state as it was: no
\* stream is held afterwards if none was held before.
C22_RetriedOnceWithDefault ==
  [][RetriedOnce /\ ((mounted /\ RetryFailed) => UNCHANGED <<stream, liveStreams>>)]_vars

\* The retry resolved: its stream is installed and no error is shown.
C22_RetryInstalledStream ==
  /\ cameraFailure.name = "OverconstrainedError"
  /\ requests = [full |-> 0, simple |-> 0]
  /\ nStreams = 1
  /\ stream = 1
  /\ video.srcObject = 1
  /\ video.onloadedmetadata = "play"
  /\ cameraError = NoMessage

\* C23: stopCamera leaves no stream held, the tracks of the stream that was
\* held stopped, and isVideoReady false; with no stream held it changes
\* nothing but isVideoReady and the status text.
C23_StopReleasesStream ==
  [][StopCamera
       => /\ stream' = 0
          /\ ~isVideoReady'
          /\ stream # 0 => stream \notin liveStreams'
          /\ stream = 0
               => UNCHANGED <<mounted, intervalOn, scanVars, ocrVars, cameraError,
                              cameraFailure, requests, nStreams, liveStreams, video,
                              lastAccepted, lastEvent, probeVars>>]_vars

\* stopCamera was called on the playing stream.
C23_StoppedWhilePlaying ==
  /\ cameraStatus = "Camera stopped"
  /\ stream = 0
  /\ nStreams = 1
  /\ liveStreams = {}
  /\ video.srcObject = 1
  /\ video.listeners
  /\ video.readyState > HaveCurrentData
  /\ ~isVideoReady

\* C24: once the component has been torn down no stream handed to it has
\* running tracks, whether it was held at the teardown or obtained by a
\* request that was outstanding then.
C24_TeardownStopsTracks == ~mounted => liveStreams = {}

\* C25: a stream acquired by startCamera, directly or through the retry with
\* default constraints, puts the status at "stream obtained", and the
\* loadedmetadata, canplay and playing events of the element then advance it
\* to metadata loaded, ready and active, the last with isVideoReady true;
\* isVideoReady becomes true in no other task.
C25_ReadinessFollowsEvents ==
  [][/\ (mounted /\ (StreamObtained \/ RetrySucceeded))
          => cameraStatus' = "Camera stream obtained, setting up video..."
     /\ VideoLoadedMetadata => cameraStatus' = "Video metadata loaded, starting playback..."
     /\ VideoCanPlay => cameraStatus' = "Camera ready"
     /\ VideoPlaying => cameraStatus' = "Camera active" /\ isVideoReady'
     /\ (isVideoReady' /\ ~isVideoReady) => VideoPlaying]_vars

\* ------------------------------------------------------------- result panel
MaskOf(number) ==
  <<"*", "*", "*", "*", " ", "*", "*", "*", "*", " ", "*", "*", "*", "*", " ">>
    \o <<number[13], number[14], number[15], number[16]>>

\* C26: while the reveal toggle is off the rendered number is
\* "**** **** **** " followed by its last four digits, so that
\* 4111111111111111 shows as "**** **** **** 1111"; whenever all of its
\* digits are on display the reveal toggle is on.
C26_MaskedUnlessRevealed ==
  display.rendered
    => /\ ~display.showFullNumber => display.text = MaskOf(display.number)
       /\ SelectSeq(display.text, IsDigit) = display.number => display.showFullNumber

\* 4111111111111111 is on display masked.
C26_ExampleMasked ==
  /\ display.rendered
  /\ ~display.showFullNumber
  /\ display.number = <<"4", "1", "1", "1">> \o Rep("1", 12)
  /\ display.text = <<"*", "*", "*", "*", " ", "*", "*", "*", "*", " ",
                      "*", "*", "*", "*", " ", "1", "1", "1", "1">>

\* -------------------------------------------------------------- preprocessor
\* 1000 times the weighted sum of a pixel's colour channels.
WeightedSum(p) == 299 * p.r + 587 * p.g + 114 * p.b

\* The contrast stretch the claim prescribes for a gray value.
Stretched(g) ==
  IF g < 128 THEN (IF g - 50 > 0 THEN g - 50 ELSE 0)
             ELSE (IF g + 50 < 255 THEN g + 50 ELSE 255)

\* A call left the raster's dimensions and every alpha unchanged and set the
\* three colour channels of every pixel to the stretch of a gray value that
\* IsGrayOf accepts for the pixel it was.
PreprocessedBy(IsGrayOf(_, _)) ==
  canvas.passes > 0
    => /\ canvas.image.width = canvas.previous.width
       /\ canvas.image.height = canvas.previous.height
       /\ Len(canvas.image.data) = Len(canvas.previous.data)
       /\ \A i \in 1..Len(canvas.image.data) :
            LET before == canvas.previous.data[i]
                after == canvas.image.data[i]
            IN /\ after.a = before.a
               /\ after.r \in 0..255
               /\ after.g = after.r
               /\ after.b = after.r
               /\ \E g \in 0..255 : IsGrayOf(g, before) /\ after.r = Stretched(g)

\* g is the weighted sum rounded to the nearest integer, a half going up.
RoundedHalfUp(g, p) == g = (WeightedSum(p) + 500) \div 1000

\* g is an integer nearest to the weighted sum: either neighbour of a half.
Nearest(g, p) == 1000 * g - WeightedSum(p) \in -500..500

\* C27 as stated, round taken as rounding of the exact sum with halves up:
\* every channel is set to e = max(0, g - 50) for g < 128, min(255, g + 50)
\* otherwise, with g = round(0.299 R + 0.587 G + 0.114 B); e is in 0..255;
\* alpha and dimensions are unchanged.
C27_EnhancedRoundedLuma == PreprocessedBy(RoundedHalfUp)

\* C27: the same with g an integer nearest to 0.299 R + 0.587 G + 0.114 B,
\* which for a sum of exactly k + 1/2 is k or k + 1.
C27_EnhancedNearestLuma == PreprocessedBy(Nearest)

\* The pixel (0, 204, 68), whose sum is 127.5, has been preprocessed to 77.
C27_HalfwayPixelDarkened ==
  /\ canvas.passes = 1
  /\ canvas.previous.data = <<[r |-> 0, g |-> 204, b |-> 68, a |-> 255]>>
  /\ canvas.image.data = <<[r |-> 77, g |-> 77, b |-> 77, a |-> 255]>>

\* C28: a second preprocessImage call on the canvas leaves the raster the
\* first call produced.
C28_SecondPassChangesNothing == canvas.passes = 2 => canvas.image = canvas.previous

\* -------------------------------------------------------- region extraction
\* C29: from a frame of width w > 0 and height h > 0 (the region canvas
\* giving its drawing context) the region has width w and is the band that
\* starts at row floor(0.4 h) with height max(1, floor(0.3 h)), or with
\* height h - floor(0.4 h) where that band would pass the last row; from a
\* frame with w = 0 or h = 0 no region is returned but an error raised.
C29_BandOfFrame ==
  extraction.done
    => LET w == extraction.width
           h == extraction.height
           top == (4 * h) \div 10
           band == IF (3 * h) \div 10 < 1 THEN 1 ELSE (3 * h) \div 10
       IN /\ (w > 0 /\ h > 0 /\ extraction.ctxOk)
               => /\ extraction.region.ok
                  /\ extraction.region.width = w
                  /\ extraction.region.y = top
                  /\ extraction.region.height = IF top + band > h THEN h - top ELSE band
                  /\ extraction.region.height >= 1
                  /\ extraction.region.y + extraction.region.height <= h
          /\ (w = 0 \/ h = 0) => ~extraction.region.ok

\* The band of a 1280 x 720 frame has been extracted: rows 288 to 503.
C29_BandOfHdFrame ==
  /\ extraction.done
  /\ extraction.width = 1280
  /\ extraction.height = 720
  /\ extraction.region = [ok |-> TRUE, width |-> 1280, height |-> 216, y |-> 288]

\* ------------------------------------------------- initialization terminates
\* The tiered manager has come to rest: a worker is installed or the error of
\* a given-up initialization is surfaced, and it no longer reports initializing.
InitializationSettled ==
  /\ ~isInitializingOCR
  /\ tesseractWorker # 0 \/ ocrError # NoError

\* C30: with every probe and construction call settling, every backoff timeout
\* firing and retryOCRInit never called, the manager, for as long as it stays
\* mounted, eventually reports isInitializingOCR false with a worker installed
\* or an error surfaced, and it never makes more than 4 attempts to get there.
C30_InitializationTerminates ==
  /\ <>(~mounted \/ InitializationSettled)
  /\ [](ocrRetryCount + 1 <= 4)
  /\ [](\A a \in attempts : a.retry + 1 <= 4)

\* The fourth attempt has failed and the manager has given up with its error.
C30_GaveUpAfterFourAttempts ==
  /\ mounted
  /\ ocrLog.manual = 0
  /\ ocrLog.failedAt = 0..3
  /\ InitializationSettled
  /\ tesseractWorker = 0
  /\ ocrError.attempts = 4
  /\ attempts = {}
  /\ timers = {}

InForce(S) == {x \in S : x.isMounted}

C32_InstalledWorkerUsable ==
  (mounted /\ tesseractWorker # 0)
    => /\ tesseractWorker \notin terminated
       /\ ~isInitializingOCR

\* A step in which only attempts and timeouts of superseded effect runs
\* settle: the hook stays mounted or unmounted as it was, the attempts and
\* timeouts in force are the same before and after, and some other one has
\* advanced or gone.
StaleSettles ==
  /\ mounted' = mounted
  /\ InForce(attempts') = InForce(attempts)
  /\ InForce(timers') = InForce(timers)
  /\ attempts' # attempts \/ timers' # timers

\* C33: an attempt or a backoff timeout of a superseded effect run, when it
\* completes or fires, installs no worker, sets neither the error nor
\* isInitializingOCR and leaves ocrRetryCount as it is.
C33_StaleFlowsMutateNothing ==
  [][StaleSettles
       => UNCHANGED <<tesseractWorker, ocrError, isInitializingOCR, ocrRetryCount>>]_vars

\* A superseded attempt has constructed a worker: it was terminated and the
\* installed handle is another one.
C33_StaleWorkerReleased ==
  /\ mounted
  /\ tesseractWorker # 0
  /\ tesseractWorker \notin terminated
  /\ \E w \in terminated : w # tesseractWorker

\* ------------------------------------------------------ scanning sessions
\* toggleScanning has just turned scanning on and no tick has started since:
\* every tick in flight was started in an earlier scanning session.
OnlyEarlierTicksInFlight == lastEvent = "ToggleOn" /\ Len(inflight) > 0

\* C34: the toggle that turns scanning on clears detectedCard, and a tick in
\* flight from an earlier scanning session stores no detection in the new
\* one: until a tick has started after the toggle detectedCard stays as the
\* toggle left it.
C34_NewSessionStartsClean ==
  [][/\ (~isScanning /\ isScanning') => detectedCard' = NoCard
     /\ OnlyEarlierTicksInFlight => detectedCard' = detectedCard]_vars

\* ------------------------------------------------- capture session, again
\* stopCamera was the last to set the status: nothing of the capture session
\* has reported and startCamera has not been called since.
StoppedLast == cameraStatus = "Camera stopped"

\* The step calls startCamera.
StartsCamera == cameraStatus' = "Requesting camera access..."

\* C35: after stopCamera no capture stream is held until startCamera is
\* called again, whatever request was outstanding when it was called.
C35_NoStreamAfterStop ==
  [][(StoppedLast /\ ~StartsCamera) => stream' = 0]_vars

\* C36: while the component is mounted every stream obtained from the device
\* is the stream held in state or has had its tracks stopped.
C36_LiveStreamIsHeld == mounted => liveStreams \subseteq {stream}

\* C37: in every state of the mounted component isVideoReady true implies
\* that a capture stream is held.
C37_ReadyImpliesStream == (mounted /\ isVideoReady) => stream # 0

\* -------------------------------------------------- scanning across a stop
\* C38: stopCamera while scanning leaves isScanning true and ends the periodic
\* ticks; when a stream is obtained again while isScanning is still true the
\* ticks are back at once, isScanning untouched, whether or not the video
\* element passes the check toggleScanning makes.
C38_ScanningSurvivesStop ==
  [][/\ (isScanning /\ stream # 0 /\ stream' = 0) => (isScanning' /\ ~intervalOn')
     /\ (isScanning /\ stream = 0 /\ stream' # 0) => (isScanning' /\ intervalOn')]_vars

\* Scanning was turned on with the first stream, the camera was stopped and
\* started again: the ticks run on the second stream while its video element
\* has no frame yet.
C38_TicksOnUnreadyVideo ==
  /\ mounted
  /\ isScanning
  /\ intervalOn
  /\ stream = 2
  /\ video.srcObject = 2
  /\ ~ToggleAllowed(video)

\* ------------------------------------------------------ result panel, again
\* C39: a detection that replaces an earlier one, or is stored after the
\* detection was cleared, is put on display masked, whatever reveal state was
\* chosen before.
C39_NewDetectionMasked ==
  [][(display'.number # display.number /\ display'.number # NoNumber)
       => display'.text = MaskOf(display'.number)]_vars

\* ------------------------------------------------- region extraction, again
\* C40: for every frame height h >= 1 the band chosen lies inside the frame,
\* floor(0.4 h) + max(1, floor(0.3 h)) <= h, so the region returned has the
\* full band height max(1, floor(0.3 h)) >= 1: the branch that shortens a
\* band passing the last row is never taken.
C40_BandNeverShortened ==
  (extraction.done /\ extraction.region.ok)
    => LET h == extraction.height
           band == IF (3 * h) \div 10 < 1 THEN 1 ELSE (3 * h) \div 10
       IN /\ h >= 1
          /\ (4 * h) \div 10 + band <= h
          /\ extraction.region.y + band <= h
          /\ extraction.region.height = band
          /\ extraction.region.height >= 1

\* The band of a frame one row high is that row: the band ends on the last
\* row of the frame.
C40_BandOfOneRow ==
  /\ extraction.done
  /\ extraction.height = 1
  /\ extraction.region.ok
  /\ extraction.region.y = 0
  /\ extraction.region.height = 1

====
